---- MODULE Spec2Model ----
(***************************************************************************)
(* Record reconciliation of the LinkedIn employee extractor:               *)
(* utils.save_employee_data / utils.load_existing_data and the in-memory   *)
(* reconciliation of linkedin_scraper.update_existing_profiles; the page    *)
(* enumerator of extract_employees and update_existing_profiles; and        *)
(* utils.assign_company_from_description.                                  *)
(*                                                                         *)
(* A string is a sequence of characters, a character is a small natural    *)
(* number and 0 is the blank, so that str.strip(), len() and the ordering  *)
(* of sorted() are computed and not assumed.                               *)
(***************************************************************************)
EXTENDS Integers, Sequences, FiniteSets, TLC

VARIABLES
    m_before,       \* merge: the dataset the merge starts from (existing_data)
    m_employees,    \* merge: the batch handed to the merge (employees)
    m_mode,         \* merge: "init", "fresh", "update" or "reconcile"
    m_all_data,     \* merge: the dataset as it stands (all_data)
    m_first,        \* merge: the dataset after the first merge of the batch
    m_again         \* merge: TRUE once the same batch has been merged a second time

merge_vars == <<m_before, m_employees, m_mode, m_all_data, m_first, m_again>>

VARIABLES
    output_csv,     \* the persisted file OUTPUT_CSV: whether it exists, and its lines
    existing_data,  \* main's dataset, loaded at the start of an update run
    update_mode,    \* main's update_mode
    pc,             \* "start", "run", "done" or "interrupted"
    last,           \* what the last call of save_employee_data was given and did
    started         \* how the run started: its --update flag, whether it loaded
                    \* the file, and the urls a reader found in the file

run_vars == <<output_csv, existing_data, update_mode, pc, last, started>>

VARIABLES
    current_url,      \* enumerator: the address of the listing (driver.current_url)
    pagination_list,  \* enumerator: "none", "list", or "broken" when reading it raises
    li_elements,      \* enumerator: the pagination controls of the list
    enumerator,       \* enumerator: "extract" or "update", the function that ran
    page_urls,        \* enumerator: the page set it built
    page_urls_again,  \* enumerator: the page set of a second enumeration
    e_pc              \* enumerator: "init", "done" or "again"

enum_vars == <<current_url, pagination_list, li_elements, enumerator, page_urls,
               page_urls_again, e_pc>>

VARIABLES
    a_description,  \* attribution: the description
    a_companies,    \* attribution: the list of companies
    a_result,       \* attribution: what assign_company_from_description returned
    a_pc            \* attribution: "init" or "done"

assign_vars == <<a_description, a_companies, a_result, a_pc>>

VARIABLES
    main_pc,          \* main: "main", "setup_browser", "session", "login",
                      \*       "companies", "pages" or "exited"
    mode_update,      \* main: update_mode after the switch to normal mode
    driver,           \* main: "none", "open" or "quit"
    cookie_file,      \* main: COOKIE_FILE is "absent", "saved" or "corrupt"
    session_loaded,   \* main: load_linkedin_session returned True
    login_waited,     \* main: wait_for_login was called
    login_done,       \* main: wait_for_login returned True
    cookie_written,   \* main: the run wrote COOKIE_FILE
    companies_n,      \* main: len(companies)
    company_idx,      \* main: the companies the loop is through with
    processed,        \* main: the companies whose processing was started
    failed,           \* main: the companies whose processing failed
    pages_n,          \* main: len(page_urls) of the company being processed
    page_idx,         \* main: the pages the page loop is through with
    attempted,        \* main: the pages driver.get was called for
    visited,          \* main: the pages that were extracted
    kept,             \* main: the pages whose records the company still holds
    interrupt_raised, \* main: a KeyboardInterrupt was raised in the loops
    file_written,     \* main: save_employee_data wrote OUTPUT_CSV
    error_logged,     \* main: logger.error was called for the end of the run
    how,              \* main: how the run ended
    exit_status       \* main: the exit status of the process

main_vars == <<main_pc, mode_update, driver, cookie_file, session_loaded,
               login_waited, login_done, cookie_written, companies_n,
               company_idx, processed, failed, pages_n, page_idx, attempted,
               visited, kept, interrupt_raised, file_written, error_logged,
               how, exit_status>>

VARIABLES
    x_company_name,    \* page extraction: the company whose listing is open
    x_companies_list,  \* page extraction: the list of companies
    x_visible,         \* page extraction: the descriptions shown on the page
    x_employees,       \* page extraction: the records returned
    x_pc               \* page extraction: "page" or "done"

extract_vars == <<x_company_name, x_companies_list, x_visible, x_employees, x_pc>>

vars == <<merge_vars, run_vars, enum_vars, assign_vars, main_vars, extract_vars>>

\* what each specification leaves alone
merge_rest == <<run_vars, enum_vars, assign_vars, main_vars, extract_vars>>
run_rest == <<merge_vars, enum_vars, assign_vars, main_vars, extract_vars>>
enum_rest == <<merge_vars, run_vars, assign_vars, main_vars, extract_vars>>
assign_rest == <<merge_vars, run_vars, enum_vars, main_vars, extract_vars>>
main_rest == <<merge_vars, run_vars, enum_vars, assign_vars, extract_vars>>
extract_rest == <<merge_vars, run_vars, enum_vars, assign_vars, main_vars>>

----------------------------------------------------------------------------
(* Strings *)

\* the longest batch a merge is given
MaxBatch == 2

\* the most records the pages of one step of a run yield
MaxPage == 1

Empty == <<>>

\* bool(s) of a Python str: the empty string is false
Truthy(s) == s # Empty

\* str.strip(): leading and trailing blanks removed
RECURSIVE Strip(_)
Strip(s) ==
    IF s = Empty THEN s
    ELSE IF Head(s) = 0 THEN Strip(Tail(s))
    ELSE IF s[Len(s)] = 0 THEN Strip(SubSeq(s, 1, Len(s) - 1))
    ELSE s

\* s < t of two Python strs: lexicographic by character
RECURSIVE StrLess(_, _)
StrLess(s, t) ==
    IF t = Empty THEN FALSE
    ELSE IF s = Empty THEN TRUE
    ELSE IF Head(s) # Head(t) THEN Head(s) < Head(t)
    ELSE StrLess(Tail(s), Tail(t))

\* the values the model draws urls, descriptions and companies from
UrlA == <<1>>
UrlB == <<2>>
UrlAPadded == <<0, 1>>
DescX == <<1>>
DescY == <<2>>
DescLong == <<1, 1>>
DescPadded == <<0, 1>>
CompC == <<1>>
CompD == <<2>>

Keys == {UrlA, UrlB}
Descs == {Empty, DescX, DescY, DescLong, DescPadded}
Comps == {Empty, CompC, CompD}

----------------------------------------------------------------------------
(* The merge of save_employee_data *)

EmptyData == [k \in {} |-> Empty]

Put(all_data, url, record) ==
    [k \in DOMAIN all_data \cup {url} |-> IF k = url THEN record ELSE all_data[k]]

\* as DescriptionMoreComplete, with >= for >
DescriptionAtLeastAsLong(employee, existing) ==
    /\ Truthy(employee.Description)
    /\ \/ ~Truthy(existing.Description)
       \/ Len(employee.Description) >= Len(existing.Description)

\* the description of the incoming record replaces the stored one
DescriptionMoreComplete(employee, existing) ==
    /\ Truthy(employee.Description)
    /\ \/ ~Truthy(existing.Description)
       \/ Len(employee.Description) > Len(existing.Description)

\* as CompanyMissing, without the test of the stored company
CompanyGiven(employee, existing) ==
    Truthy(employee.Company)

\* the company of the incoming record replaces the stored one
CompanyMissing(employee, existing) ==
    Truthy(employee.Company) /\ ~Truthy(existing.Company)

\* update mode, url already stored
UpdateExisting(existing, employee) ==
    [existing EXCEPT
        !.Description = IF DescriptionMoreComplete(employee, existing)
                        THEN employee.Description ELSE @,
        !.Company = IF CompanyMissing(employee, existing)
                    THEN employee.Company ELSE @]

\* as NewRecord, with the company left out
NewRecordNoCompany(url, employee) ==
    [Profile_URL |-> url,
     Description |-> employee.Description,
     Company |-> Empty]

\* the record stored for a url that is not in all_data yet
NewRecord(url, employee) ==
    [Profile_URL |-> url,
     Description |-> employee.Description,
     Company |-> employee.Company]

\* as MergeEmployee, updating a stored url in normal mode too
MergeEmployeeOverwriting(all_data, employee, update) ==
    LET url == Strip(employee.Profile_URL) IN
    IF ~Truthy(url) THEN all_data
    ELSE IF url \in DOMAIN all_data
         THEN [all_data EXCEPT ![url] = UpdateExisting(@, employee)]
         ELSE Put(all_data, url, NewRecord(url, employee))

\* as MergeEmployee, skipping in update mode a url that is not stored
MergeEmployeeUpdateOnly(all_data, employee, update) ==
    LET url == Strip(employee.Profile_URL) IN
    IF ~Truthy(url) THEN all_data
    ELSE IF url \in DOMAIN all_data
         THEN IF update
              THEN [all_data EXCEPT ![url] = UpdateExisting(@, employee)]
              ELSE all_data
         ELSE IF update THEN all_data
              ELSE Put(all_data, url, NewRecord(url, employee))

\* one turn of the loop over employees
MergeEmployee(all_data, employee, update) ==
    LET url == Strip(employee.Profile_URL) IN
    IF ~Truthy(url) THEN all_data
    ELSE IF url \in DOMAIN all_data
         THEN IF update
              THEN [all_data EXCEPT ![url] = UpdateExisting(@, employee)]
              ELSE all_data
         ELSE Put(all_data, url, NewRecord(url, employee))

\* all_data after the loop over employees
RECURSIVE MergeEmployees(_, _, _)
MergeEmployees(all_data, employees, update) ==
    IF employees = <<>> THEN all_data
    ELSE MergeEmployees(MergeEmployee(all_data, Head(employees), update),
                        Tail(employees), update)

----------------------------------------------------------------------------
(* The in-memory reconciliation of update_existing_profiles *)

\* as ReconcileEmployee, storing a record whose url is not in the dataset
ReconcileEmployeeAdding(stored, emp) ==
    LET url == emp.Profile_URL IN
    IF ~Truthy(url) THEN stored
    ELSE IF url \notin DOMAIN stored THEN Put(stored, url, emp)
    ELSE [stored EXCEPT ![url] =
            [@ EXCEPT
                !.Description = IF ~Truthy(@) /\ Truthy(emp.Description)
                                THEN emp.Description ELSE @,
                !.Company = IF ~Truthy(@) /\ Truthy(emp.Company)
                            THEN emp.Company ELSE @]]

\* one turn of the loop over page_employees
ReconcileEmployee(stored, emp) ==
    LET url == emp.Profile_URL IN
    IF ~Truthy(url) \/ url \notin DOMAIN stored THEN stored
    ELSE [stored EXCEPT ![url] =
            [@ EXCEPT
                !.Description = IF ~Truthy(@) /\ Truthy(emp.Description)
                                THEN emp.Description ELSE @,
                !.Company = IF ~Truthy(@) /\ Truthy(emp.Company)
                            THEN emp.Company ELSE @]]

RECURSIVE ReconcilePage(_, _)
ReconcilePage(stored, page_employees) ==
    IF page_employees = <<>> THEN stored
    ELSE ReconcilePage(ReconcileEmployee(stored, Head(page_employees)),
                       Tail(page_employees))

----------------------------------------------------------------------------
(* Inputs of the merge *)

Record(url, description, company) ==
    [Profile_URL |-> url, Description |-> description, Company |-> company]

\* the records a batch is made of: every description and company for one
\* url, and one record each for a second url, a padded url and no url
MergeRecords ==
    {Record(UrlA, d, c) : d \in Descs, c \in Comps}
        \cup {Record(UrlB, DescX, CompC),
              Record(UrlAPadded, DescLong, CompD),
              Record(Empty, DescX, CompC)}

MergeBatches == UNION {[1..n -> MergeRecords] : n \in 0..MaxBatch}

\* the datasets a merge starts from, closed under the merges of MergeBatches
StoredOf(url, values) == {[k \in {url} |-> Record(url, v[1], v[2])] : v \in values}

Join(f, g) == [k \in DOMAIN f \cup DOMAIN g |-> IF k \in DOMAIN f THEN f[k] ELSE g[k]]

MergeDatasets ==
    LET forA == {EmptyData} \cup StoredOf(UrlA, Descs \X Comps)
        forB == {EmptyData} \cup StoredOf(UrlB, {<<Empty, Empty>>, <<DescX, CompC>>})
    IN {Join(f, g) : f \in forA, g \in forB}

----------------------------------------------------------------------------
(* The persisted file *)

fieldnames == <<"Profile_URL", "Description", "Company">>

NoFile == [exists |-> FALSE, lines |-> <<>>]

\* as SortedKeys, in descending order
RECURSIVE SortedKeysReverse(_)
SortedKeysReverse(keys) ==
    IF keys = {} THEN <<>>
    ELSE LET greatest == CHOOSE k \in keys : \A other \in keys \ {k} : StrLess(other, k)
         IN <<greatest>> \o SortedKeysReverse(keys \ {greatest})

\* the urls of sorted(all_data.items()), in the order of the sort
RECURSIVE SortedKeys(_)
SortedKeys(keys) ==
    IF keys = {} THEN <<>>
    ELSE LET least == CHOOSE k \in keys : \A other \in keys \ {k} : StrLess(k, other)
         IN <<least>> \o SortedKeys(keys \ {least})

\* writer.writerow(data): the values of data in the order of fieldnames
WriteRow(data) == [i \in 1..Len(fieldnames) |-> data[fieldnames[i]]]

\* the lines of a complete write: the header, then one row per url
CsvLines(all_data) ==
    LET urls == SortedKeys(DOMAIN all_data) IN
    <<fieldnames>> \o [i \in 1..Len(urls) |-> WriteRow(all_data[urls[i]])]

\* row.get(name, '') of a csv.DictReader row under the header
RowGet(header, line, name) ==
    IF \E i \in 1..Len(header) : header[i] = name /\ i <= Len(line)
    THEN line[CHOOSE i \in 1..Len(header) : header[i] = name /\ i <= Len(line)]
    ELSE Empty

\* as LoadRow, reading the company from a column the file does not have
LoadRowNoCompany(data, header, line) ==
    LET url == Strip(RowGet(header, line, "Profile_URL")) IN
    IF ~Truthy(url) THEN data
    ELSE Put(data, url,
             [Profile_URL |-> url,
              Description |-> Strip(RowGet(header, line, "Description")),
              Company |-> Strip(RowGet(header, line, "Firma"))])

\* one turn of the loop of load_existing_data over the rows
LoadRow(data, header, line) ==
    LET url == Strip(RowGet(header, line, "Profile_URL")) IN
    IF ~Truthy(url) THEN data
    ELSE Put(data, url,
             [Profile_URL |-> url,
              Description |-> Strip(RowGet(header, line, "Description")),
              Company |-> Strip(RowGet(header, line, "Company"))])

RECURSIVE LoadRows(_, _, _)
LoadRows(data, header, lines) ==
    IF lines = <<>> THEN data
    ELSE LoadRows(LoadRow(data, header, Head(lines)), header, Tail(lines))

\* load_existing_data(): readable is FALSE when opening or parsing raises
load_existing_data(file, readable) ==
    IF ~file.exists THEN EmptyData
    ELSE IF ~readable THEN EmptyData
    ELSE IF file.lines = <<>> THEN EmptyData
    ELSE LoadRows(EmptyData, Head(file.lines), Tail(file.lines))

\* what the write of save_employee_data leaves in the file: "ok" when it
\* completes, "open_failed" when open() raises, and a number n when the write
\* raises or the process dies with n lines in the file
WriteOutcomes(lines) ==
    {[result |-> "ok", kept |-> Len(lines)], [result |-> "open_failed", kept |-> 0]}
        \cup {[result |-> "torn", kept |-> n] : n \in 0..(Len(lines) - 1)}

Written(file, lines, outcome) ==
    IF outcome.result = "ok" THEN [exists |-> TRUE, lines |-> lines]
    ELSE IF outcome.result = "open_failed" THEN file
    ELSE [exists |-> TRUE, lines |-> SubSeq(lines, 1, outcome.kept)]

\* list(existing_data.values())
Values(data) ==
    LET urls == SortedKeys(DOMAIN data) IN [i \in 1..Len(urls) |-> data[urls[i]]]

----------------------------------------------------------------------------
(* Inputs of a run *)

\* the records a page of a listing yields
PageRecords ==
    {Record(UrlA, Empty, Empty),
     Record(UrlA, DescX, Empty),
     Record(UrlA, DescLong, CompC),
     Record(UrlA, DescPadded, CompC),
     Record(UrlB, DescX, CompD)}

PageBatches == UNION {[1..n -> PageRecords] : n \in 0..MaxPage}

\* a file that was not written by save_employee_data: rows out of order,
\* a padded url and description, and a url on two rows
HandMadeFile ==
    [exists |-> TRUE,
     lines |-> <<fieldnames,
                 <<UrlB, DescX, CompD>>,
                 <<UrlAPadded, DescPadded, CompC>>,
                 <<UrlA, DescX, Empty>>>>]

InitFiles == {NoFile, HandMadeFile}

NoSave ==
    [op |-> "none", result |-> "none", employees |-> <<>>,
     prior |-> EmptyData, scraped |-> <<>>, all_data |-> EmptyData,
     loaded |-> FALSE]

NotStarted == [update |-> FALSE, loaded |-> FALSE, keys |-> {}]

RunIdle ==
    /\ output_csv = NoFile
    /\ existing_data = EmptyData
    /\ update_mode = FALSE
    /\ pc = "idle"
    /\ last = NoSave
    /\ started = NotStarted

MergeIdle ==
    /\ m_before = EmptyData
    /\ m_employees = <<>>
    /\ m_mode = "idle"
    /\ m_all_data = EmptyData
    /\ m_first = EmptyData
    /\ m_again = FALSE

EnumIdle ==
    /\ current_url = <<>>
    /\ pagination_list = "none"
    /\ li_elements = <<>>
    /\ enumerator = "none"
    /\ page_urls = <<>>
    /\ page_urls_again = <<>>
    /\ e_pc = "idle"

AssignIdle ==
    /\ a_description = <<>>
    /\ a_companies = <<>>
    /\ a_result = <<>>
    /\ a_pc = "idle"

MainIdle ==
    /\ main_pc = "idle"
    /\ mode_update = FALSE
    /\ driver = "none"
    /\ cookie_file = "absent"
    /\ session_loaded = FALSE
    /\ login_waited = FALSE
    /\ login_done = FALSE
    /\ cookie_written = FALSE
    /\ companies_n = 0
    /\ company_idx = 0
    /\ processed = {}
    /\ failed = {}
    /\ pages_n = 0
    /\ page_idx = 0
    /\ attempted = {}
    /\ visited = {}
    /\ kept = {}
    /\ interrupt_raised = FALSE
    /\ file_written = FALSE
    /\ error_logged = FALSE
    /\ how = "running"
    /\ exit_status = 0

ExtractIdle ==
    /\ x_company_name = <<>>
    /\ x_companies_list = <<>>
    /\ x_visible = <<>>
    /\ x_employees = <<>>
    /\ x_pc = "idle"

----------------------------------------------------------------------------
(* SpecMerge: one merge of a batch into a dataset, and the same batch again *)

InitMerge ==
    /\ RunIdle
    /\ EnumIdle
    /\ AssignIdle
    /\ MainIdle
    /\ ExtractIdle
    /\ m_before \in MergeDatasets
    /\ m_all_data = m_before
    /\ m_first = m_before
    /\ m_employees = <<>>
    /\ m_mode = "init"
    /\ m_again = FALSE

ApplyMode(all_data, employees, mode) ==
    IF mode = "reconcile" THEN ReconcilePage(all_data, employees)
    ELSE MergeEmployees(all_data, employees, mode = "update")

\* save_employee_data(employees, update_mode=False), up to the write
MergeFresh ==
    /\ UNCHANGED merge_rest
    /\ m_mode = "init"
    /\ \E employees \in MergeBatches :
          /\ m_employees' = employees
          /\ m_all_data' = ApplyMode(m_all_data, employees, "fresh")
    /\ m_before' = m_all_data
    /\ m_mode' = "fresh"
    /\ m_first' = m_all_data'
    /\ UNCHANGED m_again

\* save_employee_data(employees, update_mode=True), up to the write
MergeUpdate ==
    /\ UNCHANGED merge_rest
    /\ m_mode = "init"
    /\ \E employees \in MergeBatches :
          /\ m_employees' = employees
          /\ m_all_data' = ApplyMode(m_all_data, employees, "update")
    /\ m_before' = m_all_data
    /\ m_mode' = "update"
    /\ m_first' = m_all_data'
    /\ UNCHANGED m_again

\* the loop of update_existing_profiles over the employees of a page
Reconcile ==
    /\ UNCHANGED merge_rest
    /\ m_mode = "init"
    /\ \E employees \in MergeBatches :
          /\ m_employees' = employees
          /\ m_all_data' = ApplyMode(m_all_data, employees, "reconcile")
    /\ m_before' = m_all_data
    /\ m_mode' = "reconcile"
    /\ m_first' = m_all_data'
    /\ UNCHANGED m_again

\* the same batch, in the same mode, merged into the result
MergeAgain ==
    /\ UNCHANGED merge_rest
    /\ m_mode # "init"
    /\ ~m_again
    /\ m_all_data' = ApplyMode(m_all_data, m_employees, m_mode)
    /\ m_again' = TRUE
    /\ UNCHANGED <<m_before, m_employees, m_mode, m_first>>

\* the result is the dataset the next batch is merged into
NextBatch ==
    /\ UNCHANGED merge_rest
    /\ m_mode # "init"
    /\ m_before' = m_all_data
    /\ m_first' = m_all_data
    /\ m_employees' = <<>>
    /\ m_mode' = "init"
    /\ m_again' = FALSE
    /\ UNCHANGED m_all_data

NextMerge ==
    \/ MergeFresh
    \/ MergeUpdate
    \/ Reconcile
    \/ MergeAgain
    \/ NextBatch

SpecMerge == InitMerge /\ [][NextMerge]_vars

----------------------------------------------------------------------------
(* Claims about the merge, checked under SpecMerge *)

\* the keys the batch names: its urls, stripped, without the empty one
BatchKeys(employees) ==
    {Strip(employees[i].Profile_URL) : i \in 1..Len(employees)} \ {Empty}

\* C1: a fresh-mode merge leaves the description and company of every key
\* already in the dataset unchanged and adds only keys that are absent from it
C1_FreshKeepsStored ==
    m_mode = "fresh" =>
        /\ \A k \in DOMAIN m_before :
              /\ k \in DOMAIN m_all_data
              /\ m_all_data[k].Description = m_before[k].Description
              /\ m_all_data[k].Company = m_before[k].Company
        /\ DOMAIN m_all_data \ DOMAIN m_before \subseteq BatchKeys(m_employees)

C1_Witness ==
    /\ m_mode = "fresh"
    /\ ~m_again
    /\ DOMAIN m_all_data # DOMAIN m_before
    /\ \E i \in 1..Len(m_employees) :
          LET k == Strip(m_employees[i].Profile_URL) IN
          /\ k \in DOMAIN m_before
          /\ DescriptionMoreComplete(m_employees[i], m_before[k])
          /\ CompanyMissing(m_employees[i], m_before[k])

\* C2 as claimed: an update-mode merge never introduces a key absent from
\* the dataset, the key set of the result is the key set of the dataset
C2_UpdateAddsNoKey ==
    m_mode = "update" => DOMAIN m_all_data = DOMAIN m_before

\* C2 as amended: an update-mode merge keeps every key of the dataset and
\* inserts every batch record whose stripped url is non-empty and absent from
\* it, so the key set of the result is the dataset's keys and the batch's
C2_UpdateKeySet ==
    m_mode = "update" =>
        /\ DOMAIN m_all_data = DOMAIN m_before \cup BatchKeys(m_employees)
        /\ \A k \in DOMAIN m_all_data : m_all_data[k].Profile_URL = k

C2_Witness ==
    /\ m_mode = "update"
    /\ ~m_again
    /\ DOMAIN m_before # {}
    /\ BatchKeys(m_employees) \ DOMAIN m_before # {}
    /\ DOMAIN m_all_data # DOMAIN m_before

\* the dataset of an update-mode merge after the first n records of the batch
AfterRecords(n) ==
    IF n = 0 THEN m_before
    ELSE IF n = Len(m_employees) /\ ~m_again THEN m_all_data
    ELSE MergeEmployees(m_before, SubSeq(m_employees, 1, n), TRUE)

\* C3: in an update-mode merge the stored description of a record whose url
\* is in the dataset is replaced by the incoming one exactly when the incoming
\* one is non-empty and the stored one is empty or strictly shorter, and is
\* unchanged otherwise; its length never shrinks
C3_DescriptionRule ==
    (m_mode = "update" /\ ~m_again) =>
        /\ \A i \in 1..Len(m_employees) :
              LET k == Strip(m_employees[i].Profile_URL)
                  incoming == m_employees[i].Description
              IN k \in DOMAIN AfterRecords(i - 1) =>
                   LET stored == AfterRecords(i - 1)[k].Description
                       replaced == /\ incoming # Empty
                                   /\ (stored = Empty \/ Len(incoming) > Len(stored))
                   IN AfterRecords(i)[k].Description =
                          IF replaced THEN incoming ELSE stored
        /\ \A k \in DOMAIN m_before :
              Len(m_all_data[k].Description) >= Len(m_before[k].Description)

C3_Witness ==
    /\ m_mode = "update"
    /\ ~m_again
    /\ Len(m_employees) = MaxBatch
    /\ \E k \in DOMAIN m_before :
          /\ m_before[k].Description = DescX
          /\ Strip(m_employees[1].Profile_URL) = k
          /\ m_employees[1].Description = DescY
          /\ Strip(m_employees[Len(m_employees)].Profile_URL) = k
          /\ m_employees[Len(m_employees)].Description = DescLong
          /\ m_all_data[k].Description = DescLong

C6_UpdateIdempotent ==
    (m_mode = "update" /\ m_again) => m_all_data = m_first

C6_Witness ==
    /\ m_mode = "update"
    /\ m_again
    /\ m_first # m_before
    /\ DOMAIN m_first # DOMAIN m_before
    /\ \E i, j \in 1..Len(m_employees) :
          /\ i # j
          /\ Strip(m_employees[i].Profile_URL) = Strip(m_employees[j].Profile_URL)
          /\ m_employees[i].Description # m_employees[j].Description

\* as IsNewUrl, new_count incremented for a stored url too
IsNewUrlAlways(all_data, url) == TRUE

\* the test that sends a turn of the loop to the branch that stores a new
\* record and increments new_count
IsNewUrl(all_data, url) == url \notin DOMAIN all_data

\* new_count after the loop over employees in normal mode
RECURSIVE NewCount(_, _)
NewCount(all_data, employees) ==
    IF employees = <<>> THEN 0
    ELSE LET url == Strip(Head(employees).Profile_URL)
             counted == IF Truthy(url) /\ IsNewUrl(all_data, url) THEN 1 ELSE 0
         IN counted + NewCount(MergeEmployee(all_data, Head(employees), FALSE),
                               Tail(employees))

\* C30: normal-mode merge is idempotent: merging the batch a second time into
\* the result leaves the dataset as it was, and the second merge counts no
\* new record
C30_FreshIdempotent ==
    (m_mode = "fresh" /\ m_again) =>
        /\ m_all_data = m_first
        /\ NewCount(m_first, m_employees) = 0

\* a batch that names one url twice with different descriptions was merged in
\* normal mode, added a record, and was merged again
C30_Witness ==
    /\ m_mode = "fresh"
    /\ m_again
    /\ NewCount(m_before, m_employees) > 0
    /\ DOMAIN m_first # DOMAIN m_before
    /\ \E i, j \in 1..Len(m_employees) :
          /\ i # j
          /\ Strip(m_employees[i].Profile_URL) = Strip(m_employees[j].Profile_URL)
          /\ m_employees[i].Description # m_employees[j].Description

----------------------------------------------------------------------------
(* Spec: runs of main on the persisted file *)

Init ==
    /\ MergeIdle
    /\ EnumIdle
    /\ AssignIdle
    /\ MainIdle
    /\ ExtractIdle
    /\ output_csv \in InitFiles
    /\ existing_data = EmptyData
    /\ update_mode = FALSE
    /\ pc = "start"
    /\ last = NoSave
    /\ started = NotStarted

\* as SaveEmployeeData, reading the file also when a dataset is given
SaveEmployeeDataReloading(employees, update, given, stored, op, prior, scraped) ==
    IF employees = <<>>
    THEN /\ UNCHANGED output_csv
         /\ existing_data' = stored
         /\ last' = [op |-> op, result |-> "returned", employees |-> employees,
                     prior |-> prior, scraped |-> scraped, all_data |-> stored,
                     loaded |-> FALSE]
    ELSE \E readable \in (IF given THEN {TRUE} ELSE BOOLEAN) :
           LET existing == load_existing_data(output_csv, readable)
               all_data == MergeEmployees(existing, employees, update)
               lines == CsvLines(all_data)
           IN \E outcome \in WriteOutcomes(lines) :
                /\ output_csv' = Written(output_csv, lines, outcome)
                /\ existing_data' = stored
                /\ last' = [op |-> op,
                            result |-> outcome.result,
                            employees |-> employees, prior |-> prior,
                            scraped |-> scraped, all_data |-> all_data,
                            loaded |-> TRUE]

\* save_employee_data(employees, update_mode=update, all_existing_data=stored
\* when given, else None), called by the step op of a run
SaveEmployeeData(employees, update, given, stored, op, prior, scraped) ==
    IF employees = <<>>
    THEN /\ UNCHANGED output_csv
         /\ existing_data' = stored
         /\ last' = [op |-> op, result |-> "returned", employees |-> employees,
                     prior |-> prior, scraped |-> scraped, all_data |-> stored,
                     loaded |-> FALSE]
    ELSE \E readable \in (IF given THEN {TRUE} ELSE BOOLEAN) :
           LET existing == IF given THEN stored
                           ELSE load_existing_data(output_csv, readable)
               all_data == MergeEmployees(existing, employees, update)
               lines == CsvLines(all_data)
           IN \E outcome \in WriteOutcomes(lines) :
                /\ output_csv' = Written(output_csv, lines, outcome)
                /\ existing_data' = IF given
                                    THEN [k \in DOMAIN stored |-> all_data[k]]
                                    ELSE stored
                /\ last' = [op |-> op,
                            result |-> outcome.result,
                            employees |-> employees, prior |-> prior,
                            scraped |-> scraped, all_data |-> all_data,
                            loaded |-> ~given]

\* main, from its start to the loop over the companies
Start ==
    /\ UNCHANGED run_rest
    /\ pc = "start"
    /\ \E flag \in BOOLEAN, readable \in BOOLEAN :
         LET loaded == IF flag THEN load_existing_data(output_csv, readable)
                       ELSE EmptyData
         IN /\ existing_data' = loaded
            /\ update_mode' = (flag /\ loaded # EmptyData)
            /\ started' = [update |-> flag, loaded |-> flag,
                           keys |-> DOMAIN load_existing_data(output_csv, TRUE)]
    /\ pc' = "run"
    /\ last' = NoSave
    /\ UNCHANGED output_csv

\* normal mode: the employees of a page, or of a company, are saved
SavePage ==
    /\ UNCHANGED run_rest
    /\ pc = "run"
    /\ ~update_mode
    /\ \E employees \in PageBatches \ {<<>>} :
         SaveEmployeeData(employees, FALSE, FALSE, existing_data, "save",
                          EmptyData, <<>>)
    /\ UNCHANGED <<update_mode, pc, started>>

\* update mode: the pages of one company are reconciled into existing_data,
\* and existing_data is saved
UpdateCompany ==
    /\ UNCHANGED run_rest
    /\ pc = "run"
    /\ update_mode
    /\ \E scraped \in PageBatches :
         LET reconciled == ReconcilePage(existing_data, scraped) IN
         SaveEmployeeData(Values(reconciled), TRUE, TRUE, reconciled,
                          "update_company", existing_data, scraped)
    /\ UNCHANGED <<update_mode, pc, started>>

\* update mode: after the last company existing_data is saved once more
UpdateFinish ==
    /\ UNCHANGED run_rest
    /\ pc = "run"
    /\ update_mode
    /\ SaveEmployeeData(Values(existing_data), TRUE, TRUE, existing_data,
                        "update_finish", existing_data, <<>>)
    /\ pc' = "done"
    /\ UNCHANGED <<update_mode, started>>

\* normal mode: the loop over the companies ends
FreshFinish ==
    /\ UNCHANGED run_rest
    /\ pc = "run"
    /\ ~update_mode
    /\ pc' = "done"
    /\ UNCHANGED <<output_csv, existing_data, update_mode, last, started>>

\* KeyboardInterrupt: main closes the browser and returns
Interrupt ==
    /\ UNCHANGED run_rest
    /\ pc = "run"
    /\ pc' = "interrupted"
    /\ UNCHANGED <<output_csv, existing_data, update_mode, last, started>>

\* the program is started again on the file the last run left
Rerun ==
    /\ UNCHANGED run_rest
    /\ pc \in {"done", "interrupted"}
    /\ pc' = "start"
    /\ existing_data' = EmptyData
    /\ update_mode' = FALSE
    /\ last' = NoSave
    /\ started' = NotStarted
    /\ UNCHANGED output_csv

Next ==
    \/ Start
    \/ SavePage
    \/ UpdateCompany
    \/ UpdateFinish
    \/ FreshFinish
    \/ Interrupt
    \/ Rerun

Spec == Init /\ [][Next]_vars

----------------------------------------------------------------------------
(* Claims about runs and the persisted file, checked under Spec *)

\* the dataset a reader of the file finds in it
Persisted(file) == load_existing_data(file, TRUE)

\* C4 as claimed: in an update run the reconciliation of a company's scraped
\* records followed by the flush leaves, for every url of the dataset, the
\* description and company the update-mode merge rule gives; from
\* {u1: ("short", "")} and a scraped (u1, "much longer text", "Acme") the run
\* ends with u1: ("much longer text", "Acme")
C4_RunMatchesUpdateMerge ==
    (last.op = "update_company" /\ last.result = "ok") =>
        \A k \in DOMAIN last.prior :
            LET merged == MergeEmployees(last.prior, last.scraped, TRUE)[k] IN
            /\ existing_data[k].Description = merged.Description
            /\ existing_data[k].Company = merged.Company
            /\ Persisted(output_csv)[k].Description = merged.Description
            /\ Persisted(output_csv)[k].Company = merged.Company

\* a dataset with its descriptions and companies stripped
StripFields(data) ==
    [k \in DOMAIN data |->
        [Profile_URL |-> data[k].Profile_URL,
         Description |-> Strip(data[k].Description),
         Company |-> Strip(data[k].Company)]]

\* C7 as claimed: reloading the file a save has written reproduces the
\* dataset that was written, keys, descriptions and companies
C7_RoundTrip ==
    last.result = "ok" => Persisted(output_csv) = last.all_data

\* C7 as amended: reloading the file a save has written reproduces the key
\* set, and for every key the description and company that were written with
\* leading and trailing whitespace removed; it is the dataset that was
\* written when no description or company has such whitespace
C7_RoundTripStripped ==
    last.result = "ok" =>
        /\ DOMAIN Persisted(output_csv) = DOMAIN last.all_data
        /\ Persisted(output_csv) = StripFields(last.all_data)
        /\ StripFields(last.all_data) = last.all_data =>
              Persisted(output_csv) = last.all_data

C7_Witness ==
    /\ last.op = "save"
    /\ last.result = "ok"
    /\ DOMAIN last.all_data = Keys
    /\ last.all_data[UrlA].Description = DescPadded
    /\ last.all_data[UrlA].Company = CompC
    /\ Persisted(output_csv)[UrlA].Description = DescX
    /\ Persisted(output_csv)[UrlB] = last.all_data[UrlB]

\* C8: after a successful flush the file holds the header and one row per
\* profile url, every row has the three columns of the header, and the rows
\* are in ascending order of Profile_URL, so no two share a url
C8_FileRows ==
    last.result = "ok" =>
        LET lines == output_csv.lines IN
        /\ output_csv.exists
        /\ Len(lines) = 1 + Cardinality(DOMAIN last.all_data)
        /\ lines[1] = <<"Profile_URL", "Description", "Company">>
        /\ \A i \in 2..Len(lines) : Len(lines[i]) = Len(lines[1])
        /\ \A i, j \in 2..Len(lines) :
              i < j => StrLess(RowGet(lines[1], lines[i], "Profile_URL"),
                               RowGet(lines[1], lines[j], "Profile_URL"))

C8_Witness ==
    /\ last.op = "save"
    /\ last.result = "ok"
    /\ Len(output_csv.lines) = 3
    /\ last.employees[1].Profile_URL = UrlA
    /\ UrlB \in DOMAIN last.all_data

\* C9 as claimed: a profile url that is in the persisted file before a call
\* of save_employee_data is in it after the call
C9_NoRecordLost ==
    [][DOMAIN Persisted(output_csv) \subseteq DOMAIN Persisted(output_csv')]_vars

\* C10 as claimed: whatever happens to a flush, the file holds the complete
\* dataset it held before or the complete newly merged dataset
C10_FlushAtomic ==
    [][\/ output_csv' = output_csv
       \/ output_csv' = [exists |-> TRUE, lines |-> CsvLines(last'.all_data)]]_vars

\* C11 as claimed: when the write of a flush fails the run goes on, and the
\* next flush that succeeds writes the records of the failed flush as well
C11_FailedFlushRetried ==
    [][/\ (last' # last /\ last'.result \in {"open_failed", "torn"}) =>
             pc' \in {"run", "done"}
       /\ (last.result \in {"open_failed", "torn"} /\ last' # last
               /\ last'.result = "ok") =>
             DOMAIN last.all_data \subseteq DOMAIN Persisted(output_csv')]_vars

\* C25 as claimed: in both modes the dataset is loaded when the process
\* starts and at no flush after it, and the step that ends the loop over the
\* companies writes the dataset once more
C25_LoadedOnceWrittenAtEnd ==
    [][/\ (pc = "start" /\ pc' = "run") => started'.loaded
       /\ (pc = "run" /\ last' # last) => ~last'.loaded
       /\ (pc = "run" /\ pc' = "done") => last'.op = "update_finish"]_vars

\* C25 as the code has it: a run loads the file at its start exactly when it
\* was given --update. In update mode no flush reads the file, every flush
\* writes the whole of existing_data, and the step that ends the loop over the
\* companies is one more flush. In normal mode every flush reads the file,
\* merges its batch into what it read and writes the whole result, and the
\* step that ends the loop over the companies writes nothing.
C25_LifecycleByMode ==
    [][/\ (pc = "start" /\ pc' = "run") =>
             /\ started'.loaded <=> started'.update
             /\ update_mode' => started'.loaded
       /\ (pc = "run" /\ last' # last) =>
             /\ last'.loaded <=> ~update_mode
             /\ last'.result = "ok" =>
                    output_csv' = [exists |-> TRUE,
                                   lines |-> CsvLines(last'.all_data)]
             /\ update_mode => last'.all_data = existing_data'
       /\ (pc = "run" /\ pc' = "done") =>
             IF update_mode
             THEN last'.op = "update_finish"
             ELSE last' = last /\ output_csv' = output_csv]_vars

\* an update run has reconciled a company and ended with its last flush
C25_Witness ==
    /\ pc = "done"
    /\ update_mode
    /\ started.loaded
    /\ last.op = "update_finish"
    /\ last.result = "ok"
    /\ ~last.loaded
    /\ output_csv.lines = CsvLines(existing_data)

\* C27 as claimed: a run started with --update never has a profile url in
\* the persisted file that was not in it when the run started, whatever the
\* file held then
C27_UpdateRunAddsNoUrl ==
    started.update => DOMAIN Persisted(output_csv) \subseteq started.keys

\* C27 as the code has it: a run that is in update mode, which is a run
\* started with --update on a file that load_existing_data read at least one
\* record from, never has a profile url in the persisted file that was not in
\* it when the run started
C27_UpdateModeAddsNoUrl ==
    update_mode => DOMAIN Persisted(output_csv) \subseteq started.keys

\* an update run has flushed a company whose pages held a profile url that the
\* file did not hold at the start, and the file does not hold it
C27_Witness ==
    /\ update_mode
    /\ last.op = "update_company"
    /\ last.result = "ok"
    /\ \E i \in DOMAIN last.scraped :
         /\ Truthy(last.scraped[i].Profile_URL)
         /\ last.scraped[i].Profile_URL \notin started.keys
         /\ last.scraped[i].Profile_URL \notin DOMAIN Persisted(output_csv)

----------------------------------------------------------------------------
(* The page enumerator of extract_employees and update_existing_profiles *)

(* An address, or the label of a control, is a sequence of pieces: "?", "&", *)
(* "page=", a decimal digit, a blank, or a piece of text that holds none of  *)
(* these, so that the tests `in`, split(), isdigit(), int() and the regular  *)
(* expression of get_page_num are computed on the pieces.                    *)

\* the most pagination controls a pagination list holds
MaxControls == 2

DigitChars == <<"0", "1", "2", "3", "4", "5", "6", "7", "8", "9">>

Digits == {DigitChars[i] : i \in 1..Len(DigitChars)}

DigitValue(c) == (CHOOSE i \in 1..Len(DigitChars) : DigitChars[i] = c) - 1

\* text and text.isdigit()
IsDigit(text) == text # <<>> /\ \A i \in 1..Len(text) : text[i] \in Digits

\* int(text) of a text of digits
RECURSIVE ToInt(_)
ToInt(text) ==
    IF text = <<>> THEN 0
    ELSE 10 * ToInt(SubSeq(text, 1, Len(text) - 1)) + DigitValue(text[Len(text)])

\* f"{page_num}"
RECURSIVE ToStr(_)
ToStr(n) ==
    IF n < 10 THEN <<DigitChars[n + 1]>>
    ELSE ToStr(n \div 10) \o <<DigitChars[(n % 10) + 1]>>

\* part in s
Contains(s, part) ==
    \E i \in 1..(Len(s) - Len(part) + 1) : SubSeq(s, i, i + Len(part) - 1) = part

\* s.split(part)[0] when part is in s
Before(s, part) ==
    LET first == CHOOSE i \in 1..(Len(s) - Len(part) + 1) :
                    /\ SubSeq(s, i, i + Len(part) - 1) = part
                    /\ \A j \in 1..(i - 1) : SubSeq(s, j, j + Len(part) - 1) # part
    IN SubSeq(s, 1, first - 1)

\* text.strip() of a label
RECURSIVE StripText(_)
StripText(text) ==
    IF text = <<>> THEN text
    ELSE IF Head(text) = " " THEN StripText(Tail(text))
    ELSE IF text[Len(text)] = " " THEN StripText(SubSeq(text, 1, Len(text) - 1))
    ELSE text

Linkedin == "https://www.linkedin.com"
PeopleSearch == "/search/results/people/"
CompanyPeople == "/company/acme/people/"

\* the number get_page_num gives an address without one
UnknownPage == 999

\* the places of an address where the expression page=(\d+) matches
PageMatches(url) ==
    {i \in 1..(Len(url) - 1) : url[i] = "page=" /\ url[i + 1] \in Digits}

\* the digits the group (\d+) takes from place i on
RECURSIVE DigitRun(_, _)
DigitRun(url, i) ==
    IF i > Len(url) \/ url[i] \notin Digits THEN <<>>
    ELSE <<url[i]>> \o DigitRun(url, i + 1)

get_page_num(url) ==
    IF PageMatches(url) = {} THEN UnknownPage
    ELSE LET first == CHOOSE i \in PageMatches(url) :
                         \A j \in PageMatches(url) : i <= j
         IN ToInt(DigitRun(url, first + 1))

\* the address the controls' page numbers are appended to
base_url(url) ==
    IF Contains(url, <<"&", "page=">>) THEN Before(url, <<"&", "page=">>)
    ELSE IF Contains(url, <<"?", "page=">>) THEN Before(url, <<"?", "page=">>)
    ELSE url

\* the address built for a page number
PageUrl(base, page_num) ==
    IF Contains(base, <<"?">>) THEN base \o <<"&", "page=">> \o ToStr(page_num)
    ELSE base \o <<"?", "page=">> \o ToStr(page_num)

\* as ControlUrls, taking every href
ControlUrlsAnyHref(li, base) ==
    IF li.kind # "clickable" THEN {}
    ELSE LET href == li.href
             text == StripText(li.text)
         IN IF href # <<>> THEN {href}
            ELSE IF IsDigit(text) THEN {PageUrl(base, ToInt(text))}
            ELSE {}

\* what one turn of the loop over li_elements appends to page_urls: nothing
\* for an li without a button or link ("none") and for one whose reading
\* raises ("unreadable")
ControlUrls(li, base) ==
    IF li.kind # "clickable" THEN {}
    ELSE LET href == li.href
             text == StripText(li.text)
         IN IF href # <<>> /\ Contains(href, <<PeopleSearch>>) THEN {href}
            ELSE IF IsDigit(text) THEN {PageUrl(base, ToInt(text))}
            ELSE {}

\* set(page_urls) after the loop
UrlSet(controls, base) ==
    UNION {ControlUrls(controls[i], base) : i \in 1..Len(controls)}

\* sorted(set(page_urls), key=get_page_num): the sort is stable and a set of
\* strings is iterated in the order of their hashes, which differs from one
\* process to the next, so addresses with equal keys come in any order
SortedOrders(urls) ==
    {order \in [1..Cardinality(urls) -> urls] :
        /\ \A i, j \in 1..Cardinality(urls) : i # j => order[i] # order[j]
        /\ \A i, j \in 1..Cardinality(urls) :
              i < j => get_page_num(order[i]) <= get_page_num(order[j])}

\* the page sets extract_employees can build
ExtractPageUrls(url, pagination, controls) ==
    IF pagination = "none" THEN {<<url>>}
    ELSE IF pagination = "broken" THEN {<<>>}
    ELSE SortedOrders(UrlSet(controls, base_url(url)))

\* the page sets update_existing_profiles can build
UpdatePageUrls(url, pagination, controls) ==
    IF pagination = "none" THEN {<<url>>}
    ELSE IF pagination = "broken" THEN {<<url>>}
    ELSE SortedOrders(UrlSet(controls, base_url(url)))

PageUrlsOf(who, url, pagination, controls) ==
    IF who = "extract" THEN ExtractPageUrls(url, pagination, controls)
    ELSE UpdatePageUrls(url, pagination, controls)

----------------------------------------------------------------------------
(* Inputs of the enumerator *)

Address(path, query) == <<Linkedin, path>> \o query

\* the addresses a listing is reached at: without a page parameter, with the
\* page parameter first, in the middle and last, and without a query
CurrentUrls ==
    {Address(PeopleSearch, <<"?", "keywords=x">>),
     Address(PeopleSearch, <<"?", "page=", "2", "&", "keywords=x">>),
     Address(PeopleSearch, <<"?", "keywords=x", "&", "page=", "2", "&", "origin=y">>),
     Address(PeopleSearch, <<"?", "keywords=x", "&", "page=", "2">>),
     Address(CompanyPeople, <<>>)}

Control(href, text) == [kind |-> "clickable", href |-> href, text |-> text]

Controls ==
    {[kind |-> "none", href |-> <<>>, text |-> <<>>],
     [kind |-> "unreadable", href |-> <<>>, text |-> <<>>],
     Control(Address(PeopleSearch, <<"?", "keywords=x", "&", "page=", "2">>), <<"2">>),
     Control(Address(PeopleSearch, <<"?", "page=", "2", "&", "keywords=x">>), <<"2">>),
     Control(Address(PeopleSearch, <<"?", "keywords=x">>), <<>>),
     Control(Address(PeopleSearch, <<"?", "keywords=z">>), <<"N", "e", "x", "t">>),
     Control(Address(CompanyPeople, <<"?", "page=", "3">>), <<"3">>),
     Control(<<>>, <<"2">>),
     Control(<<>>, <<" ", "3", " ">>),
     Control(<<>>, <<"1", "0", "0", "0">>),
     Control(<<>>, <<"N", "e", "x", "t">>)}

ControlLists == UNION {[1..n -> Controls] : n \in 0..MaxControls}

----------------------------------------------------------------------------
(* SpecEnum: one enumeration of a listing's pages, and a second one *)

InitEnum ==
    /\ MergeIdle
    /\ RunIdle
    /\ AssignIdle
    /\ MainIdle
    /\ ExtractIdle
    /\ current_url \in CurrentUrls
    /\ pagination_list \in {"none", "list", "broken"}
    /\ li_elements \in (IF pagination_list = "list" THEN ControlLists ELSE {<<>>})
    /\ enumerator = "none"
    /\ page_urls = <<>>
    /\ page_urls_again = <<>>
    /\ e_pc = "init"

\* extract_employees, from the search for the pagination list to page_urls
EnumerateExtract ==
    /\ UNCHANGED enum_rest
    /\ e_pc = "init"
    /\ page_urls' \in ExtractPageUrls(current_url, pagination_list, li_elements)
    /\ enumerator' = "extract"
    /\ e_pc' = "done"
    /\ UNCHANGED <<current_url, pagination_list, li_elements, page_urls_again>>

\* update_existing_profiles, from the search for the pagination list to page_urls
EnumerateUpdate ==
    /\ UNCHANGED enum_rest
    /\ e_pc = "init"
    /\ page_urls' \in UpdatePageUrls(current_url, pagination_list, li_elements)
    /\ enumerator' = "update"
    /\ e_pc' = "done"
    /\ UNCHANGED <<current_url, pagination_list, li_elements, page_urls_again>>

\* the same function enumerates the same listing once more, in another run
EnumerateAgain ==
    /\ UNCHANGED enum_rest
    /\ e_pc = "done"
    /\ page_urls_again' \in
          PageUrlsOf(enumerator, current_url, pagination_list, li_elements)
    /\ e_pc' = "again"
    /\ UNCHANGED <<current_url, pagination_list, li_elements, enumerator, page_urls>>

NextEnum ==
    \/ EnumerateExtract
    \/ EnumerateUpdate
    \/ EnumerateAgain

SpecEnum == InitEnum /\ [][NextEnum]_vars

----------------------------------------------------------------------------
(* Claims about the enumerator, checked under SpecEnum *)

Enumerated == e_pc \in {"done", "again"}

Range(s) == {s[i] : i \in 1..Len(s)}

\* C12 as claimed: the page set is in ascending order of the page numbers
\* extracted from its addresses, and every address without a page number
\* comes after every address that has one
C12_SortedUnknownLast ==
    Enumerated =>
        \A i, j \in 1..Len(page_urls) :
            LET known_i == PageMatches(page_urls[i]) # {}
                known_j == PageMatches(page_urls[j]) # {}
            IN /\ (i < j /\ known_i /\ known_j) =>
                     get_page_num(page_urls[i]) <= get_page_num(page_urls[j])
               /\ (known_i /\ ~known_j) => i < j

\* C13 as claimed: a second enumeration of the same controls at the same
\* current address returns the same sequence, entries with equal page numbers
\* or without one in the same relative order
C13_EnumeratorDeterministic ==
    e_pc = "again" => page_urls_again = page_urls

\* C14 as claimed: without a pagination list, or with one that yields no
\* control, the page set is the current address alone
C14_NoControlsSinglePage ==
    (/\ Enumerated
     /\ \/ pagination_list = "none"
        \/ /\ pagination_list = "list"
           /\ \A i \in 1..Len(li_elements) : li_elements[i].kind # "clickable")
        => page_urls = <<current_url>>

\* the pieces of an address that are parameters other than the page number
OtherParams(url) ==
    Range(url) \ ({Linkedin, PeopleSearch, CompanyPeople, "?", "&", "page="} \cup Digits)

\* the page an address denotes: its path, its other parameters, its number
PageOf(url) ==
    <<IF Contains(url, <<"?">>) THEN Before(url, <<"?">>) ELSE url,
      OtherParams(url),
      get_page_num(url)>>

\* C15 as claimed: no two entries of the page set denote the same page
C15_NoPageTwice ==
    Enumerated =>
        \A i, j \in 1..Len(page_urls) :
            i # j => PageOf(page_urls[i]) # PageOf(page_urls[j])

PageParams(url) == Cardinality({i \in 1..Len(url) : url[i] = "page="})

\* C16 as claimed: the base address is the current address without its page
\* parameter and with every other parameter, and an address built from it has
\* the other parameters of the current address and one page parameter
C16_BaseKeepsOtherParams ==
    (Enumerated /\ pagination_list = "list") =>
        LET base == base_url(current_url) IN
        /\ PageParams(base) = 0
        /\ OtherParams(base) = OtherParams(current_url)
        /\ \A i \in 1..Len(li_elements) :
              LET li == li_elements[i] IN
              (li.kind = "clickable" /\ li.href = <<>> /\ IsDigit(StripText(li.text))) =>
                  \E k \in 1..Len(page_urls) :
                      /\ get_page_num(page_urls[k]) = ToInt(StripText(li.text))
                      /\ PageParams(page_urls[k]) = 1
                      /\ OtherParams(page_urls[k]) = OtherParams(current_url)

\* what a control contributes when uses_href says whether its address is used
Contribution(li, base, uses_href) ==
    IF li.kind # "clickable" THEN {}
    ELSE IF uses_href THEN {li.href}
    ELSE IF IsDigit(StripText(li.text))
         THEN {PageUrl(base, ToInt(StripText(li.text)))}
         ELSE {}

Clickable == {i \in 1..Len(li_elements) : li_elements[i].kind = "clickable"}

C18_DegradesToSinglePage ==
    (Enumerated /\ pagination_list \in {"none", "broken"}) =>
        page_urls = <<current_url>>

----------------------------------------------------------------------------
(* assign_company_from_description *)

(* A description or a company name is a sequence of characters. *)

\* the longest description drawn from DescriptionChars
MaxDescription == 3

\* the longest list of companies
MaxCompanies == 2

UpperLower ==
    {<<"A", "a">>, <<"B", "b">>, <<"C", "c">>, <<"E", "e">>, <<"I", "i">>,
     <<"O", "o">>, <<"S", "s">>}

\* str.lower()
Lower(s) ==
    [i \in 1..Len(s) |->
        IF \E p \in UpperLower : p[1] = s[i]
        THEN (CHOOSE p \in UpperLower : p[1] = s[i])[2]
        ELSE s[i]]

\* str.replace(old, new) for a character old
RECURSIVE Replace(_, _, _)
Replace(s, old, new) ==
    IF s = <<>> THEN <<>>
    ELSE (IF Head(s) = old THEN new ELSE <<Head(s)>>) \o Replace(Tail(s), old, new)

\* as company_clean, with the dots replaced by spaces
company_clean_spaces(company_lower) ==
    Replace(Replace(Replace(company_lower, ".", <<" ">>), "-", <<" ">>), "_", <<" ">>)

company_clean(company_lower) ==
    Replace(Replace(Replace(company_lower, ".", <<>>), "-", <<" ">>), "_", <<" ">>)

\* as FirstCompany, returning the last company that matches
RECURSIVE LastCompany(_, _)
LastCompany(description_lower, companies) ==
    IF companies = <<>> THEN <<>>
    ELSE LET company == companies[Len(companies)]
             company_lower == Lower(company)
         IN IF Contains(description_lower, company_lower) THEN company
            ELSE IF Contains(description_lower, company_clean(company_lower))
                 THEN company
                 ELSE LastCompany(description_lower,
                                  SubSeq(companies, 1, Len(companies) - 1))

\* the loop over companies
RECURSIVE FirstCompany(_, _)
FirstCompany(description_lower, companies) ==
    IF companies = <<>> THEN <<>>
    ELSE LET company == Head(companies)
             company_lower == Lower(company)
         IN IF Contains(description_lower, company_lower) THEN company
            ELSE IF Contains(description_lower, company_clean(company_lower))
                 THEN company
                 ELSE FirstCompany(description_lower, Tail(companies))

assign_company_from_description(description, companies) ==
    IF description = <<>> THEN <<>>
    ELSE FirstCompany(Lower(description), companies)

----------------------------------------------------------------------------
(* Inputs of the attribution *)

DescriptionChars == {"a", "A", "b", " ", "."}

SeniorEngAtAcmeCorp ==
    <<"S", "e", "n", "i", "o", "r", " ", "E", "n", "g", " ", "@", " ",
      "A", "c", "m", "e", " ", "C", "o", "r", "p", ".">>

NoMention == <<"n", "o", " ", "m", "e", "n", "t", "i", "o", "n">>

AcmeCorp == <<"A", "c", "m", "e", " ", "C", "o", "r", "p">>

OtherInc == <<"O", "t", "h", "e", "r", " ", "I", "n", "c">>

Descriptions ==
    UNION {[1..n -> DescriptionChars] : n \in 0..MaxDescription}
        \cup {SeniorEngAtAcmeCorp, NoMention}

Companies ==
    {<<"A", ".", "B">>, <<"A", "-", "B">>, <<"A", "_", "B">>, <<"a", "b">>, <<"B">>,
     AcmeCorp, OtherInc}

CompanyLists == UNION {[1..n -> Companies] : n \in 0..MaxCompanies}

----------------------------------------------------------------------------
(* SpecAssign: one call of assign_company_from_description *)

InitAssign ==
    /\ MergeIdle
    /\ RunIdle
    /\ EnumIdle
    /\ MainIdle
    /\ ExtractIdle
    /\ a_description \in Descriptions
    /\ a_companies \in CompanyLists
    /\ a_result = <<>>
    /\ a_pc = "init"

Assign ==
    /\ UNCHANGED assign_rest
    /\ a_pc = "init"
    /\ a_result' = assign_company_from_description(a_description, a_companies)
    /\ a_pc' = "done"
    /\ UNCHANGED <<a_description, a_companies>>

NextAssign ==
    \/ Assign

SpecAssign == InitAssign /\ [][NextAssign]_vars

----------------------------------------------------------------------------
(* Claims about the attribution, checked under SpecAssign *)

\* a name with "-" and "_" turned into spaces and every "." into dot
RECURSIVE Normalized(_, _)
Normalized(name, dot) ==
    IF name = <<>> THEN <<>>
    ELSE (IF Head(name) = "." THEN dot
          ELSE IF Head(name) \in {"-", "_"} THEN <<" ">>
          ELSE <<Head(name)>>) \o Normalized(Tail(name), dot)

\* the company's name, or its name normalized with dot, is in the description
Mentions(description, company, dot) ==
    \/ Contains(Lower(description), Lower(company))
    \/ Contains(Lower(description), Normalized(Lower(company), dot))

\* C19: the result is the first company of the list whose lower-cased name,
\* or its punctuation-normalized form, is in the lower-cased description,
\* also when a later company matches; it is the empty string when none
\* matches or the description is empty; the description "Senior Eng @ Acme
\* Corp." with the companies Acme Corp, Other Inc gives Acme Corp
C19_FirstMatchInListOrder ==
    a_pc = "done" =>
        LET matching == {i \in 1..Len(a_companies) :
                            Mentions(a_description, a_companies[i], <<>>)}
        IN /\ (a_description = <<>> \/ matching = {}) => a_result = <<>>
           /\ (a_description # <<>> /\ matching # {}) =>
                 \E i \in matching :
                     /\ \A j \in matching : i <= j
                     /\ a_result = a_companies[i]
           /\ (a_description = SeniorEngAtAcmeCorp
                  /\ a_companies = <<AcmeCorp, OtherInc>>) => a_result = AcmeCorp
           /\ (a_description = NoMention) => a_result = <<>>

C19_Witness ==
    /\ a_pc = "done"
    /\ Len(a_companies) = 2
    /\ a_companies[1] # a_companies[2]
    /\ ~Contains(Lower(a_description), Lower(a_companies[1]))
    /\ Contains(Lower(a_description), Lower(a_companies[2]))
    /\ a_description # Lower(a_description)
    /\ a_result = a_companies[1]

\* C20 as claimed: a company matches whenever its lower-cased name with each
\* of ".", "-" and "_" replaced by a space is in the lower-cased description
C20_VariantDotsToSpaces ==
    (a_pc = "done" /\ a_description # <<>>) =>
        \A i \in 1..Len(a_companies) :
            Contains(Lower(a_description), Normalized(Lower(a_companies[i]), <<" ">>)) =>
                \E j \in 1..i : a_result = a_companies[j]

\* C20 as amended: a company matches whenever its lower-cased name with every
\* "." removed and each "-" and "_" replaced by a space is in the lower-cased
\* description, so A.B matches a description containing "ab" and A-B one
\* containing "a b"
C20_VariantDotsRemoved ==
    (a_pc = "done" /\ a_description # <<>>) =>
        \A i \in 1..Len(a_companies) :
            Contains(Lower(a_description), Normalized(Lower(a_companies[i]), <<>>)) =>
                \E j \in 1..i : a_result = a_companies[j]

C20_Witness ==
    /\ a_pc = "done"
    /\ a_companies = <<<<"A", ".", "B">>>>
    /\ Contains(Lower(a_description), <<"a", "b">>)
    /\ ~Contains(Lower(a_description), <<"a", ".", "b">>)
    /\ a_result = <<"A", ".", "B">>

----------------------------------------------------------------------------
(* SpecMain: one run of main, from its start to the end of the process *)

\* the longest list of companies of a run
MaxRunCompanies == 2

\* the longest page set of a company
MaxPages == 3

setup_state == <<cookie_file, session_loaded, login_waited, login_done, cookie_written>>

loop_state == <<company_idx, processed, failed, pages_n, page_idx, attempted,
                visited, kept, interrupt_raised, file_written>>

InitMain ==
    /\ MergeIdle
    /\ RunIdle
    /\ EnumIdle
    /\ AssignIdle
    /\ ExtractIdle
    /\ main_pc = "main"
    /\ mode_update \in BOOLEAN
    /\ driver = "none"
    /\ cookie_file \in {"absent", "saved", "corrupt"}
    /\ session_loaded = FALSE
    /\ login_waited = FALSE
    /\ login_done = FALSE
    /\ cookie_written = FALSE
    /\ companies_n \in 0..MaxRunCompanies
    /\ company_idx = 0
    /\ processed = {}
    /\ failed = {}
    /\ pages_n = 0
    /\ page_idx = 0
    /\ attempted = {}
    /\ visited = {}
    /\ kept = {}
    /\ interrupt_raised = FALSE
    /\ file_written = FALSE
    /\ error_logged = FALSE
    /\ how = "running"
    /\ exit_status = 0

\* the process ends: main returns (status 0) or an exception leaves it (status 1)
Exit(reason, status, browser, logged) ==
    /\ main_pc' = "exited"
    /\ how' = reason
    /\ exit_status' = status
    /\ driver' = browser
    /\ error_logged' = logged

\* main's finally clause
Quit == "quit"

\* main, up to the call of setup_browser
MainStart ==
    /\ UNCHANGED main_rest
    /\ main_pc = "main"
    /\ IF companies_n = 0
       THEN Exit("no_companies", 0, driver, TRUE)
       ELSE /\ main_pc' = "setup_browser"
            /\ UNCHANGED <<driver, how, exit_status, error_logged>>
    /\ UNCHANGED <<mode_update, companies_n, setup_state, loop_state>>

\* setup_browser, up to webdriver.Chrome(): the browser starts, or Chrome()
\* raises and main returns, or the operator interrupts
CreateDriver ==
    /\ UNCHANGED main_rest
    /\ main_pc = "setup_browser"
    /\ \E outcome \in {"created", "raises", "interrupt"} :
         IF outcome = "created"
         THEN /\ main_pc' = "session"
              /\ driver' = "open"
              /\ UNCHANGED <<how, exit_status, error_logged>>
         ELSE IF outcome = "raises"
         THEN Exit("no_browser", 0, "none", TRUE)
         ELSE Exit("uncaught", 1, "none", FALSE)
    /\ UNCHANGED <<mode_update, companies_n, setup_state, loop_state>>

\* setup_browser, from the timeouts to load_linkedin_session
LoadSession ==
    /\ UNCHANGED main_rest
    /\ main_pc = "session"
    /\ \E outcome \in {"configure_raises", "interrupt", "load"} :
         IF outcome = "configure_raises"
         THEN /\ Exit("no_browser", 0, driver, TRUE)
              /\ UNCHANGED session_loaded
         ELSE IF outcome = "interrupt"
         THEN /\ Exit("uncaught", 1, driver, FALSE)
              /\ UNCHANGED session_loaded
         ELSE \E readable \in BOOLEAN :
                /\ session_loaded' = (cookie_file = "saved" /\ readable)
                /\ main_pc' = IF session_loaded' THEN "companies" ELSE "login"
                /\ UNCHANGED <<driver, how, exit_status, error_logged>>
    /\ UNCHANGED <<mode_update, companies_n, cookie_file, login_waited,
                   login_done, cookie_written, loop_state>>

\* as WritesCookie, whatever wait_for_login returned
WritesCookieAlways(login, saved) == saved

\* save_linkedin_session is called, and writes the file
WritesCookie(login, saved) == login = "logged_in" /\ saved

\* setup_browser, from wait_for_login to its return
WaitForLogin ==
    /\ UNCHANGED main_rest
    /\ main_pc = "login"
    /\ login_waited' = TRUE
    /\ \E login \in {"get_raises", "timeout", "logged_in", "interrupt"},
          saved \in BOOLEAN :
         /\ login_done' = (login = "logged_in")
         /\ cookie_written' = WritesCookie(login, saved)
         /\ cookie_file' = IF cookie_written' THEN "saved" ELSE cookie_file
         /\ IF login = "get_raises" THEN Exit("no_browser", 0, driver, TRUE)
            ELSE IF login = "timeout" THEN Exit("no_browser", 0, "quit", TRUE)
            ELSE IF login = "interrupt" THEN Exit("uncaught", 1, driver, FALSE)
            ELSE /\ main_pc' = "companies"
                 /\ UNCHANGED <<driver, how, exit_status, error_logged>>
    /\ UNCHANGED <<mode_update, companies_n, session_loaded, loop_state>>

\* as AfterCompanyFailure, leaving the loop
AfterCompanyFailureStops(idx, n) == n

\* the loop over the companies after a company failed: the next company
AfterCompanyFailure(idx, n) == idx + 1

\* as AfterNavigationFailure, leaving the loop
AfterNavigationFailureStops(idx, n) == n

\* the loop over page_urls after driver.get failed: the next page
AfterNavigationFailure(idx, n) == idx + 1

\* a company's processing starts: the company is not found or its listing
\* does not load, or the page set of its listing is built; a
\* KeyboardInterrupt raised on the way reaches main's handler, or is caught
\* by a bare except around the reading of a pagination control
StartCompany ==
    /\ UNCHANGED main_rest
    /\ main_pc = "companies"
    /\ company_idx < companies_n
    /\ processed' = processed \cup {company_idx + 1}
    /\ \E outcome \in {"failed", "listing", "interrupt", "interrupt_swallowed"},
          n \in 0..MaxPages :
         /\ interrupt_raised' =
               (interrupt_raised \/ outcome \in {"interrupt", "interrupt_swallowed"})
         /\ IF outcome = "failed"
            THEN /\ failed' = failed \cup {company_idx + 1}
                 /\ company_idx' = AfterCompanyFailure(company_idx, companies_n)
                 /\ UNCHANGED <<main_pc, pages_n, driver, how, exit_status,
                                error_logged>>
            ELSE IF outcome = "interrupt"
            THEN /\ Exit("interrupt", 0, Quit, FALSE)
                 /\ UNCHANGED <<failed, company_idx, pages_n>>
            ELSE /\ main_pc' = "pages"
                 /\ pages_n' = n
                 /\ UNCHANGED <<failed, company_idx, driver, how, exit_status,
                                error_logged>>
    /\ page_idx' = 0
    /\ attempted' = {}
    /\ visited' = {}
    /\ kept' = {}
    /\ UNCHANGED <<mode_update, companies_n, setup_state, file_written>>

\* one turn of the loop over page_urls
VisitPage ==
    /\ UNCHANGED main_rest
    /\ main_pc = "pages"
    /\ page_idx < pages_n
    /\ attempted' = attempted \cup {page_idx + 1}
    /\ \E outcome \in {"navigation_failed", "extracted", "exception", "interrupt",
                       "interrupt_swallowed"},
          found \in BOOLEAN :
         /\ interrupt_raised' =
               (interrupt_raised \/ outcome \in {"interrupt", "interrupt_swallowed"})
         /\ IF outcome = "navigation_failed"
            THEN /\ page_idx' = AfterNavigationFailure(page_idx, pages_n)
                 /\ UNCHANGED <<main_pc, visited, kept, file_written, failed,
                                company_idx, driver, how, exit_status, error_logged>>
            ELSE IF outcome \in {"extracted", "interrupt_swallowed"}
            THEN /\ page_idx' = page_idx + 1
                 /\ visited' = visited \cup {page_idx + 1}
                 /\ kept' = kept \cup {page_idx + 1}
                 /\ file_written' = (file_written \/ (found /\ ~mode_update))
                 /\ UNCHANGED <<main_pc, failed, company_idx, driver, how,
                                exit_status, error_logged>>
            ELSE IF outcome = "exception"
            THEN /\ main_pc' = "companies"
                 /\ failed' = failed \cup {company_idx + 1}
                 /\ company_idx' = AfterCompanyFailure(company_idx, companies_n)
                 /\ kept' = IF mode_update THEN kept ELSE {}
                 /\ UNCHANGED <<page_idx, visited, file_written, driver, how,
                                exit_status, error_logged>>
            ELSE /\ Exit("interrupt", 0, Quit, FALSE)
                 /\ UNCHANGED <<page_idx, visited, kept, file_written, failed,
                                company_idx>>
    /\ UNCHANGED <<mode_update, companies_n, setup_state, processed, pages_n>>

\* the loop over page_urls ends: the company's records are saved
FinishCompany ==
    /\ UNCHANGED main_rest
    /\ main_pc = "pages"
    /\ page_idx = pages_n
    /\ main_pc' = "companies"
    /\ company_idx' = company_idx + 1
    /\ \E found \in BOOLEAN :
         /\ file_written' = (file_written \/ mode_update \/ (found /\ kept # {}))
         /\ failed' = IF ~mode_update /\ ~(found /\ kept # {})
                      THEN failed \cup {company_idx + 1} ELSE failed
    /\ UNCHANGED <<mode_update, companies_n, setup_state, processed, pages_n,
                   page_idx, attempted, visited, kept, interrupt_raised, driver,
                   how, exit_status, error_logged>>

\* the loop over the companies ends, update mode saves once more, main logs
\* where the results are and closes the browser
FinishRun ==
    /\ UNCHANGED main_rest
    /\ main_pc = "companies"
    /\ company_idx = companies_n
    /\ file_written' = (file_written \/ mode_update)
    /\ Exit("completed", 0, Quit, FALSE)
    /\ UNCHANGED <<mode_update, companies_n, setup_state, company_idx, processed,
                   failed, pages_n, page_idx, attempted, visited, kept,
                   interrupt_raised>>

\* an exception raised in main's try block outside the handlers of a company
\* reaches main's except Exception
MainException ==
    /\ UNCHANGED main_rest
    /\ main_pc = "companies"
    /\ Exit("exception", 0, Quit, TRUE)
    /\ UNCHANGED <<mode_update, companies_n, setup_state, loop_state>>

NextMain ==
    \/ MainStart
    \/ CreateDriver
    \/ LoadSession
    \/ WaitForLogin
    \/ StartCompany
    \/ VisitPage
    \/ FinishCompany
    \/ FinishRun
    \/ MainException

SpecMain == InitMain /\ [][NextMain]_vars

----------------------------------------------------------------------------
(* Claims about a run of main, checked under SpecMain *)

\* C21 as claimed: when the process ends after a browser session was created,
\* the session has been released with driver.quit()
C21_DriverReleased ==
    main_pc = "exited" => driver # "open"

\* C22 as claimed: the exit status is 0 on the success path and non-zero when
\* the run ends through an exception that reaches main's handler or without
\* a browser session; in the failure case the error is logged and the
\* browser is not left open
C22_ExitStatus ==
    main_pc = "exited" =>
        /\ how = "completed" => exit_status = 0
        /\ how \in {"exception", "no_browser"} =>
              /\ exit_status # 0
              /\ error_logged
              /\ driver # "open"

\* C23: a company whose processing fails does not end the loop over the
\* companies: in either mode a run that completes has processed every
\* company, and the loop has processed every company up to the one it is at;
\* a run that ends without a browser session has processed no company and
\* has not written the persisted file
C23_CompanyFailureLocal ==
    /\ failed \subseteq processed
    /\ main_pc = "companies" => processed = 1..company_idx
    /\ main_pc = "pages" => processed = 1..(company_idx + 1)
    /\ how = "completed" => processed = 1..companies_n
    /\ how = "no_browser" => (processed = {} /\ ~file_written)

C23_Witness ==
    /\ how = "completed"
    /\ mode_update
    /\ companies_n = 2
    /\ failed = {1}
    /\ processed = {1, 2}
    /\ file_written

\* C24: the cookie file is written only after wait_for_login returned True,
\* wait_for_login is called only when load_linkedin_session did not return
\* True, a run that loaded a saved session neither waits for a login nor
\* writes the cookie file, and a run whose login does not succeed writes no
\* cookie file and processes no company
C24_CookieAfterLogin ==
    /\ cookie_written => login_done
    /\ login_waited => ~session_loaded
    /\ session_loaded => (~login_waited /\ ~cookie_written)
    /\ (login_waited /\ ~login_done /\ main_pc = "exited") =>
          (~cookie_written /\ processed = {})

C24_Witness ==
    /\ main_pc = "exited"
    /\ how = "no_browser"
    /\ driver = "quit"
    /\ login_waited
    /\ ~login_done
    /\ cookie_file = "corrupt"

\* C26: when the navigation to a page fails the page is skipped: the loop
\* over page_urls has called driver.get for every page up to the one it is
\* at, so every remaining page is still visited, and the records of the pages
\* that were extracted are kept
C26_PageSkipped ==
    main_pc = "pages" =>
        /\ attempted = 1..page_idx
        /\ visited \subseteq attempted
        /\ kept = visited

C26_Witness ==
    /\ main_pc = "pages"
    /\ page_idx = 3
    /\ attempted = {1, 2, 3}
    /\ visited = {1, 3}
    /\ kept = {1, 3}

\* C28 as claimed: once a KeyboardInterrupt has been raised while the
\* companies are processed, control has reached main's handler, the browser
\* is closed and the run has ended, so no further page or company is processed
C28_InterruptEndsRun ==
    interrupt_raised => (main_pc = "exited" /\ how = "interrupt" /\ driver = "quit")

----------------------------------------------------------------------------
(* extract_employees_from_current_page *)

(* A description or a company name is a sequence of characters, as for the *)
(* attribution.                                                            *)

\* the most profiles a page shows
MaxVisible == 2

\* the profile url of the i-th profile of the page
ProfileUrl(i) == <<"/", "i", "n", "/">> \o <<<<"1", "2", "3", "4">>[i]>>

\* _extract_visible_employees: one record for each profile of the page, its
\* company the company of the listing
ExtractVisibleEmployees(visible, company_name) ==
    [i \in DOMAIN visible |->
        [Profile_URL |-> ProfileUrl(i),
         Description |-> visible[i],
         Company |-> IF company_name # <<>> THEN company_name ELSE <<>>]]

\* as AssignEmployee, the assignment from the description left out
AssignEmployeeKeepsListing(emp, company_name, companies_list) ==
    IF company_name # <<>> THEN [emp EXCEPT !.Company = company_name] ELSE emp

\* one turn of the loop over employees
AssignEmployee(emp, company_name, companies_list) ==
    IF emp.Company = <<>> \/ emp.Company = company_name
    THEN IF emp.Description # <<>>
         THEN LET assigned_company ==
                      assign_company_from_description(emp.Description,
                                                      companies_list)
              IN IF assigned_company # <<>>
                 THEN [emp EXCEPT !.Company = assigned_company]
                 ELSE IF company_name # <<>>
                      THEN [emp EXCEPT !.Company = company_name]
                      ELSE emp
         ELSE IF company_name # <<>>
              THEN [emp EXCEPT !.Company = company_name]
              ELSE emp
    ELSE IF emp.Company = <<>>
         THEN [emp EXCEPT !.Company = company_name]
         ELSE emp

extract_employees_from_current_page(visible, company_name, companies_list) ==
    LET employees == ExtractVisibleEmployees(visible, company_name) IN
    IF companies_list # <<>>
    THEN [i \in DOMAIN employees |->
             AssignEmployee(employees[i], company_name, companies_list)]
    ELSE employees

----------------------------------------------------------------------------
(* Inputs of the page extraction *)

VisibleDescriptions ==
    {<<>>, <<"a", "b">>, <<"a", " ", "B">>, <<"B">>, SeniorEngAtAcmeCorp, NoMention}

VisiblePages == UNION {[1..n -> VisibleDescriptions] : n \in 0..MaxVisible}

ListingNames == {<<>>, <<"B">>, AcmeCorp}

----------------------------------------------------------------------------
(* SpecExtract: one call of extract_employees_from_current_page *)

InitExtract ==
    /\ MergeIdle
    /\ RunIdle
    /\ EnumIdle
    /\ AssignIdle
    /\ MainIdle
    /\ x_company_name \in ListingNames
    /\ x_companies_list \in CompanyLists
    /\ x_visible \in VisiblePages
    /\ x_employees = <<>>
    /\ x_pc = "page"

ExtractFromCurrentPage ==
    /\ UNCHANGED extract_rest
    /\ x_pc = "page"
    /\ x_employees' = extract_employees_from_current_page(
                          x_visible, x_company_name, x_companies_list)
    /\ x_pc' = "done"
    /\ UNCHANGED <<x_company_name, x_companies_list, x_visible>>

NextExtract ==
    \/ ExtractFromCurrentPage

SpecExtract == InitExtract /\ [][NextExtract]_vars

----------------------------------------------------------------------------
(* Claims about the page extraction, checked under SpecExtract *)

\* the companies of the list that the description of a profile mentions
MatchedBy(description, companies_list) ==
    {j \in 1..Len(companies_list) : Mentions(description, companies_list[j], <<>>)}

\* C29: when the list of companies and the company of the listing are not
\* empty, there is one record for each profile of the page, and the company of
\* each record is not empty: it is the first company of the list that the
\* description of the profile mentions, and the company of the listing when
\* the description is empty or mentions no company of the list
C29_CompanyNeverEmpty ==
    (x_pc = "done" /\ x_companies_list # <<>> /\ x_company_name # <<>>) =>
        /\ Len(x_employees) = Len(x_visible)
        /\ \A i \in 1..Len(x_employees) :
              LET description == x_visible[i]
                  matched == MatchedBy(description, x_companies_list)
              IN /\ x_employees[i].Description = description
                 /\ x_employees[i].Company # <<>>
                 /\ IF description # <<>> /\ matched # {}
                    THEN \E j \in matched :
                            /\ \A k \in matched : j <= k
                            /\ x_employees[i].Company = x_companies_list[j]
                    ELSE x_employees[i].Company = x_company_name

\* a page of two profiles: the description of one mentions the second company
\* of the list only, which is not the company of the listing, and the other
\* has no description
C29_Witness ==
    /\ x_pc = "done"
    /\ x_company_name # <<>>
    /\ Len(x_companies_list) = 2
    /\ Len(x_employees) = 2
    /\ x_visible[1] # <<>>
    /\ MatchedBy(x_visible[1], x_companies_list) = {2}
    /\ x_companies_list[2] # x_company_name
    /\ x_employees[1].Company = x_companies_list[2]
    /\ x_visible[2] = <<>>
    /\ x_employees[2].Company = x_company_name

====
